---- MODULE Spec2Model ----
(***************************************************************************)
(* A state-machine model of the FIO currency engine (src/src/fio/          *)
(* fioEngine.js): the history-sync cycle, the balance cache, the endpoint  *)
(* failover used by every remote call, the spend builder and the polling   *)
(* tasks under start / stop / resync.                                      *)
(*                                                                         *)
(* Every `await` of the source is a point where the model splits a handler *)
(* into steps; the code between two awaits runs as one atomic action.      *)
(* Amounts are integers; balances are decimal strings, kept as a mantissa  *)
(* and a number of fractional digits so that "1" and "1.0" are different   *)
(* strings with the same decimal value.                                    *)
(***************************************************************************)
EXTENDS Integers, Sequences, FiniteSets, TLC

VARIABLES
  blockHeight,              \* walletLocalData.blockHeight
  totalBalances,            \* walletLocalData.totalBalances
  highestTxHeight,          \* walletLocalData.otherData.highestTxHeight
  fioAddresses,             \* walletLocalData.otherData.fioAddresses
  fioDomains,               \* walletLocalData.otherData.fioDomains
  wallet,                   \* transaction list, pending notifications, dirty flag, call logs
  engineOn,                 \* this.engineOn
  timers,                   \* pending timers per task name
  pc,                       \* per task and invocation: the await it is suspended on
  txLoc,                    \* locals of each running checkTransactions
  stale,                    \* per invocation: the engine was killed while it was in flight
  inFlight,                 \* per task: invocations begun and not yet finished
  taskEnd,                  \* per task: how its last finished invocation ended
  eng,                      \* startEngine calls so far, position of a running resync
  remote,                   \* what the remote history node holds
  emitted,                  \* callbacks delivered by the most recent step
  cyc,                      \* record of the sync cycles run so far
  mc,                       \* a multicastServers call in progress
  last                      \* the most recent direct call and its outcome

vars == <<blockHeight, totalBalances, highestTxHeight, fioAddresses, fioDomains,
          wallet, engineOn, timers, pc, txLoc, stale, inFlight, taskEnd, eng, remote,
          emitted, cyc, mc, last>>

ledgerVars == <<blockHeight, totalBalances, highestTxHeight, fioAddresses, fioDomains>>
schedVars == <<engineOn, timers, pc, txLoc, stale, inFlight, taskEnd, eng>>

----------------------------------------------------------------------------
(* Bounds and input domains *)

MaxCycles == 2
MaxEndpoints == 3
MaxProcessCalls == 2
MaxStarts == 2

Heights == 1..2
Watermarks == 0..2
Txids == {"tA", "tB"}
PageLens == 0..2
SpendAmounts == {0, 1, 2, 90}
Fees == {0, 1, 5, 20}

(* Program constants *)
offset == 10
NumApiUrls == 2
NumHistoryUrls == 1
fioApiErrorCodes == {400, 403, 404}
LocalKey == "FIOlocal"
OtherKey == "FIOother"
LocalActor == "actorlocal"
OtherActor == "actorother"
Undefined == [undefined |-> TRUE]
TaskNames == {"checkBlockchainInnerLoop", "checkAccountInnerLoop",
              "checkTransactionsInnerLoop"}

----------------------------------------------------------------------------
(* Helpers *)

Max(a, b) == IF a > b THEN a ELSE b

MaxOf(S) == CHOOSE x \in S : \A y \in S : y <= x

Range(s) == {s[i] : i \in 1..Len(s)}

(* Array.prototype.sort((a, b) => b.block_height - a.block_height): a stable
   sort, descending by block_height. *)
RECURSIVE InsertDesc(_, _)
InsertDesc(sorted, r) ==
  IF sorted = <<>> THEN <<r>>
  ELSE IF Head(sorted).block_height >= r.block_height
       THEN <<Head(sorted)>> \o InsertDesc(Tail(sorted), r)
       ELSE <<r>> \o sorted

RECURSIVE SortDesc(_)
SortDesc(s) ==
  IF s = <<>> THEN <<>>
  ELSE InsertDesc(SortDesc(SubSeq(s, 1, Len(s) - 1)), s[Len(s)])

----------------------------------------------------------------------------
(* Decimal strings and the biggystring operations on them.  Dec(m, s) is the
   string whose digits read m with s of them after the point: Dec(1, 0) is
   "1", Dec(10, 1) is "1.0", Dec(-95, 0) is "-95". *)

Dec(m, s) == [m |-> m, s |-> s]

RECURSIVE Pow10(_)
Pow10(k) == IF k = 0 THEN 1 ELSE 10 * Pow10(k - 1)

bnsEq(x, y) == x.m * Pow10(y.s) = y.m * Pow10(x.s)

bnsGt(x, y) == x.m * Pow10(y.s) > y.m * Pow10(x.s)

bnsAdd(x, y) ==
  LET s == Max(x.s, y.s)
  IN Dec((x.m * Pow10(s - x.s)) + (y.m * Pow10(s - y.s)), s)

bnsSub(x, y) ==
  LET s == Max(x.s, y.s)
  IN Dec((x.m * Pow10(s - x.s)) - (y.m * Pow10(s - y.s)), s)

(* `-${quantity}`: a minus sign in front of the digits *)
Minus(x) == Dec(-x.m, x.s)

(* `${fee}`: a number written out *)
NumStr(n) == Dec(n, 0)

DecStrings == {Dec(0, 0), Dec(1, 0), Dec(10, 1), Dec(2, 0), Dec(3, 0), Dec(100, 0)}

----------------------------------------------------------------------------
(* The transaction list of the base engine *)

(* findTransaction(currencyCode, txid): index of the transaction, or -1 *)
findTransaction(w, txid) ==
  IF \E i \in 1..Len(w.txs) : w.txs[i].txid = txid
  THEN (CHOOSE i \in 1..Len(w.txs) : w.txs[i].txid = txid) - 1
  ELSE -1

(* addTransaction(currencyCode, edgeTransaction): append, mark dirty, queue a
   "transactions changed" notification.  calls logs every call. *)
addTransaction(w, tx) ==
  [w EXCEPT !.txs = Append(@, tx),
            !.changed = Append(@, tx),
            !.dirty = TRUE,
            !.calls = Append(@, [txid |-> tx.txid, blockHeight |-> tx.blockHeight])]

----------------------------------------------------------------------------
(* processTransaction(transfer, actor): returns the wallet after the call and
   the block height it returns.  w.seen logs the returned heights. *)

(* TrnsfiopubkyTx without the self-to-self case *)
TrnsfiopubkyTx_NoSelfCase(transfer, actor) ==
  LET isPayee == transfer.payee_public_key = LocalKey
      amount == transfer.transfer_amount
  IN [txid |-> transfer.transaction_id,
      blockHeight |-> IF transfer.block_height > 0 THEN transfer.block_height ELSE 0,
      nativeAmount |-> IF isPayee THEN amount ELSE -amount,
      networkFee |-> transfer.fee_amount,
      ourReceiveAddresses |-> IF isPayee THEN <<LocalKey>> ELSE <<>>,
      name |-> ""]

TrnsfiopubkyTx(transfer, actor) ==
  LET isPayee == transfer.payee_public_key = LocalKey
      amount == transfer.transfer_amount
  IN [txid |-> transfer.transaction_id,
      blockHeight |-> IF transfer.block_height > 0 THEN transfer.block_height ELSE 0,
      nativeAmount |-> IF isPayee
                       THEN (IF transfer.payer = actor THEN 0 ELSE amount)
                       ELSE -amount,
      networkFee |-> transfer.fee_amount,
      ourReceiveAddresses |-> IF isPayee THEN <<LocalKey>> ELSE <<>>,
      name |-> ""]

TransferTx(transfer) ==
  [txid |-> transfer.transaction_id,
   blockHeight |-> IF transfer.block_height > 0 THEN transfer.block_height ELSE 0,
   nativeAmount |-> -transfer.transfer_amount,
   networkFee |-> 0,
   ourReceiveAddresses |-> <<>>,
   name |-> "FIO fee"]

processTransaction(w, hwm, transfer, actor) ==
  LET ret(w2) == [w |-> [w2 EXCEPT !.seen = Append(@, transfer.block_height)],
                  blockNum |-> transfer.block_height]
  IN IF transfer.block_height <= hwm THEN ret(w)
     ELSE IF transfer.action # "trnsfiopubky" /\ transfer.action # "transfer" THEN ret(w)
     ELSE IF transfer.action = "trnsfiopubky"
          THEN ret(addTransaction(w, TrnsfiopubkyTx(transfer, actor)))
          ELSE IF findTransaction(w, transfer.transaction_id) > -1
               THEN ret(w)
               ELSE ret(addTransaction(w, TransferTx(transfer)))

----------------------------------------------------------------------------
(* multicastServers: one closure per endpoint, run by asyncWaterfall *)

(* What one endpoint does with a request: it answers, or the call throws an
   error whose errorCode is 0 (a transport failure carries none) or an HTTP
   status the service reported. *)
EndpointOutcomes ==
  {[kind |-> "ok", errorCode |-> 0]} \cup
  {[kind |-> "throw", errorCode |-> c] : c \in {0, 400, 403, 404, 500}}

HistoryOutcomes == {o \in EndpointOutcomes : o.errorCode = 0}

(* The closure of the history branch: fetch, then result.json().  A returned
   result carries the endpoint it came from. *)
HistoryAttempt(apiUrl, o) ==
  IF o.kind = "ok"
  THEN [kind |-> "return", isError |-> FALSE, code |-> 0, from |-> apiUrl]
  ELSE [kind |-> "throw", isError |-> FALSE, code |-> o.errorCode, from |-> apiUrl]

(* ApiAttempt with a catch that turns every error into an error result *)
ApiAttempt_CatchAll(apiUrl, o) ==
  IF o.kind = "ok"
  THEN [kind |-> "return", isError |-> FALSE, code |-> 0, from |-> apiUrl]
  ELSE [kind |-> "return", isError |-> TRUE, code |-> o.errorCode, from |-> apiUrl]

(* ApiAttempt with a catch that rethrows every error *)
ApiAttempt_RethrowAll(apiUrl, o) ==
  IF o.kind = "ok"
  THEN [kind |-> "return", isError |-> FALSE, code |-> 0, from |-> apiUrl]
  ELSE [kind |-> "throw", isError |-> FALSE, code |-> o.errorCode, from |-> apiUrl]

(* The closure of the api branch: the try / catch around the SDK call *)
ApiAttempt(apiUrl, o) ==
  IF o.kind = "ok"
  THEN [kind |-> "return", isError |-> FALSE, code |-> 0, from |-> apiUrl]
  ELSE IF o.errorCode # 0 /\ o.errorCode \in fioApiErrorCodes
       THEN [kind |-> "return", isError |-> TRUE, code |-> o.errorCode, from |-> apiUrl]
       ELSE [kind |-> "throw", isError |-> FALSE, code |-> o.errorCode, from |-> apiUrl]

Attempt(actionName, apiUrl, o) ==
  IF actionName = "history" THEN HistoryAttempt(apiUrl, o) ELSE ApiAttempt(apiUrl, o)

(* A call in progress: the action, what each endpoint of the list will do,
   the next endpoint to try, the endpoints invoked so far in order. *)
NewCall(actionName, outs) ==
  [actionName |-> actionName, outs |-> outs, next |-> 1, invoked |-> <<>>,
   status |-> "running",
   res |-> [kind |-> "none", isError |-> FALSE, code |-> 0, from |-> 0]]

NoCall == [NewCall("none", <<>>) EXCEPT !.status = "idle"]

(* asyncWaterfall: try the closures in list order; the first that completes
   without throwing is the result; when every one has thrown, fail. *)
asyncWaterfall(c) ==
  LET i == c.next
      a == Attempt(c.actionName, i, c.outs[i])
      inv == Append(c.invoked, i)
  IN IF a.kind = "return"
     THEN [c EXCEPT !.invoked = inv, !.status = "resolved", !.res = a]
     ELSE IF i = Len(c.outs)
          THEN [c EXCEPT !.invoked = inv, !.status = "rejected", !.res = a]
          ELSE [c EXCEPT !.invoked = inv, !.next = i + 1]

(* The end of multicastServers: a resolved error result of the api branch is
   thrown as a FioError carrying its code; a rejection propagates; anything
   else is returned as it came. *)
multicastFinish(c) ==
  IF c.status = "rejected"
  THEN [c EXCEPT !.status = "thrown", !.res.kind = "unreachable"]
  ELSE IF c.actionName # "history" /\ c.res.isError
       THEN [c EXCEPT !.status = "thrown", !.res.kind = "FioError"]
       ELSE [c EXCEPT !.status = "returned", !.res.kind = "ok"]

RECURSIVE runWaterfall(_)
runWaterfall(c) ==
  IF c.status = "running" THEN runWaterfall(asyncWaterfall(c)) ELSE c

(* multicastServers(actionName, params, uri) as one call *)
multicastServers(actionName, outs) ==
  multicastFinish(runWaterfall(NewCall(actionName, outs)))

ApiOuts == [1..NumApiUrls -> EndpointOutcomes]
HistoryOuts == [1..NumHistoryUrls -> HistoryOutcomes]

(* How multicastServers can end for the polling tasks, over everything the
   endpoints can do: "returned" or "thrown". *)
ApiEnds == {multicastServers("getChainInfo", outs).status : outs \in ApiOuts}
HistoryEnds == {multicastServers("history", outs).status : outs \in HistoryOuts}

(* What result.json() of an answering history node holds: the data asked for,
   or an error object without the actions / transfers fields. *)
HistoryBodies == {"data", "error"}

----------------------------------------------------------------------------
(* checkTransactions *)

TxTask == "checkTransactionsInnerLoop"
AccountTask == "checkAccountInnerLoop"
BlockchainTask == "checkBlockchainInnerLoop"

(* The page the history node returns for a request at position pos: the
   remote history is fixed, one list of transfers per chunk of positions. *)
RemotePage(top, pos) ==
  LET k == ((top - pos) \div offset) + 1
  IN IF k \in 1..Len(remote.hist) THEN remote.hist[k] ELSE <<>>

(* ForLoop that does not stop below the watermark *)
RECURSIVE ForLoop_NoWatermarkStop(_, _, _, _, _)
ForLoop_NoWatermarkStop(w, hwm, newH, transfers, i) ==
  IF i > Len(transfers)
  THEN [w |-> w, newHighestTxHeight |-> newH, finish |-> FALSE]
  ELSE LET r == processTransaction(w, hwm, transfers[i], LocalActor)
           blockNum == r.blockNum
       IN IF blockNum > newH
          THEN ForLoop_NoWatermarkStop(r.w, hwm, blockNum, transfers, i + 1)
          ELSE IF blockNum = newH /\ i = 1
               THEN [w |-> r.w, newHighestTxHeight |-> newH, finish |-> TRUE]
               ELSE ForLoop_NoWatermarkStop(r.w, hwm, newH, transfers, i + 1)

(* The for loop over one sorted page *)
RECURSIVE ForLoop(_, _, _, _, _)
ForLoop(w, hwm, newH, transfers, i) ==
  IF i > Len(transfers)
  THEN [w |-> w, newHighestTxHeight |-> newH, finish |-> FALSE]
  ELSE LET r == processTransaction(w, hwm, transfers[i], LocalActor)
           blockNum == r.blockNum
       IN IF blockNum > newH
          THEN ForLoop(r.w, hwm, blockNum, transfers, i + 1)
          ELSE IF (blockNum = newH /\ i = 1) \/ blockNum < hwm
               THEN [w |-> r.w, newHighestTxHeight |-> newH, finish |-> TRUE]
               ELSE ForLoop(r.w, hwm, newH, transfers, i + 1)

(* PageStep that leaves the cursor where it is *)
PageStep_KeepsCursor(w, hwm, newH, pos, page) ==
  LET transfers == SortDesc(page)
  IN IF Len(transfers) = 0
     THEN [w |-> w, newHighestTxHeight |-> newH, pos |-> pos, more |-> FALSE]
     ELSE LET f == ForLoop(w, hwm, newH, transfers, 1)
          IN [w |-> f.w, newHighestTxHeight |-> f.newHighestTxHeight, pos |-> pos,
              more |-> ~f.finish /\ ~(pos < 0)]

(* One turn of the while loop once the page has arrived: sort, process, move
   the cursor.  more says whether another page is requested. *)
PageStep(w, hwm, newH, pos, page) ==
  LET transfers == SortDesc(page)
  IN IF Len(transfers) = 0
     THEN [w |-> w, newHighestTxHeight |-> newH, pos |-> pos, more |-> FALSE]
     ELSE LET f == ForLoop(w, hwm, newH, transfers, 1)
              pos2 == pos - offset
          IN [w |-> f.w, newHighestTxHeight |-> f.newHighestTxHeight, pos |-> pos2,
              more |-> ~f.finish /\ ~(pos2 < 0)]

(* The tail of checkTransactionsInnerLoop after checkTransactions returned
   true: deliver and clear the pending notifications. *)
FlushChanged(w) == [w EXCEPT !.changed = <<>>]

FlushEvents(w) ==
  IF Len(w.changed) > 0
  THEN <<[cb |-> "onTransactionsChanged", arg |-> w.changed]>>
  ELSE <<>>

----------------------------------------------------------------------------
(* The polling loop of the base engine.  startEngine calls addToLoop(name,
   interval) for each task: addToLoop runs the task function unless an
   invocation of that name is still running, and when the function has
   finished and the engine is on it sets the timer that calls addToLoop
   again.  Stopping the engine cancels the pending timers and lets the
   invocations in flight finish. *)

FirstAwait(t) ==
  IF t = BlockchainTask THEN "chainInfo"
  ELSE IF t = AccountTask THEN "balance"
  ELSE "pointer"

(* addToLoop after the task function has finished: arm the next timer while
   the engine is on. *)
Rearm(t) == IF engineOn THEN [timers EXCEPT ![t] = 1] ELSE timers

(* The invocation of task t returns to addToLoop; how tells whether it ended
   in a catch of a failed remote call ("caught") or not ("ok"). *)
TaskReturns(t, how) ==
  /\ pc' = [pc EXCEPT ![t] = "idle"]
  /\ stale' = [stale EXCEPT ![t] = FALSE]
  /\ inFlight' = [inFlight EXCEPT ![t] = @ - 1]
  /\ taskEnd' = [taskEnd EXCEPT ![t] = how]
  /\ timers' = Rearm(t)

(* The invocation of task t throws into addToLoop *)
TaskThrows(t) ==
  /\ pc' = [pc EXCEPT ![t] = "idle"]
  /\ stale' = [stale EXCEPT ![t] = FALSE]
  /\ inFlight' = [inFlight EXCEPT ![t] = @ - 1]
  /\ taskEnd' = [taskEnd EXCEPT ![t] = "threw"]
  /\ timers' = Rearm(t)

(* The invocation of task t goes on to its next await *)
TaskAwaits(t, at) ==
  /\ pc' = [pc EXCEPT ![t] = at]
  /\ UNCHANGED <<stale, inFlight, taskEnd, timers>>

----------------------------------------------------------------------------
(* checkTransactionsInnerLoop *)

(* checkTransactionsInnerLoop up to the first await of checkTransactions: the
   locals are set and the latest-action query is in flight. *)
TxBegin ==
  /\ txLoc' = [newHighestTxHeight |-> highestTxHeight,
               lastActionSeqNumber |-> 0, pos |-> 0]
  /\ wallet' = [wallet EXCEPT !.seen = <<>>]
  /\ cyc' = LET fresh == cyc.result \in {"none", "completed", "noop"}
            IN [cyc EXCEPT !.n = @ + 1, !.wm0 = highestTxHeight, !.pages = 0,
                           !.first = IF cyc.n = 0 THEN highestTxHeight ELSE @,
                           !.result = "running",
                           !.calls0 = Len(wallet.calls),
                           !.baseWm = IF fresh THEN highestTxHeight ELSE @,
                           !.baseTxs = IF fresh THEN wallet.txs ELSE @,
                           !.interrupted = IF fresh THEN 0 ELSE @]

(* The latest-action query returns (or fails, which the code catches). *)
TxPointerReturn ==
  /\ pc[TxTask] = "pointer"
  /\ \E end \in HistoryEnds, body \in HistoryBodies :
       LET answered == end = "returned" /\ body = "data"
           seq == IF answered /\ Len(remote.actions) > 0
                  THEN remote.actions[1].account_action_seq ELSE 0
       IN IF seq = 0
          THEN /\ TaskReturns(TxTask, IF answered THEN "ok" ELSE "caught")
               /\ txLoc' = txLoc
               /\ wallet' = FlushChanged(wallet)
               /\ emitted' = FlushEvents(wallet)
               /\ cyc' = [cyc EXCEPT !.result =
                            IF answered THEN "noop" ELSE "pointerFailed"]
          ELSE /\ TaskAwaits(TxTask, "page")
               /\ txLoc' = [txLoc EXCEPT !.lastActionSeqNumber = seq, !.pos = seq]
               /\ wallet' = wallet
               /\ emitted' = <<>>
               /\ cyc' = [cyc EXCEPT !.pages = @ + 1]
  /\ UNCHANGED <<ledgerVars, engineOn, eng, remote, mc, last>>

(* TxPageFail that commits the running watermark on the way out *)
TxPageFail_CommitsWatermark ==
  /\ TaskReturns(TxTask, "caught")
  /\ cyc' = [cyc EXCEPT !.result = "failed",
                        !.interrupted = @ + (IF Len(wallet.seen) > 0 THEN 1 ELSE 0)]
  /\ emitted' = <<>>
  /\ highestTxHeight' = Max(highestTxHeight, txLoc.newHighestTxHeight)
  /\ UNCHANGED <<txLoc, wallet>>

(* TxPageFail that puts the watermark back to 0 to have everything fetched
   again *)
TxPageFail_ResetsWatermark ==
  /\ TaskReturns(TxTask, "caught")
  /\ cyc' = [cyc EXCEPT !.result = "failed",
                        !.interrupted = @ + (IF Len(wallet.seen) > 0 THEN 1 ELSE 0)]
  /\ emitted' = <<>>
  /\ highestTxHeight' = 0
  /\ UNCHANGED <<txLoc, wallet>>

(* TxPageFail that throws the pending notifications away *)
TxPageFail_DropsQueue ==
  /\ TaskReturns(TxTask, "caught")
  /\ cyc' = [cyc EXCEPT !.result = "failed",
                        !.interrupted = @ + (IF Len(wallet.seen) > 0 THEN 1 ELSE 0)]
  /\ emitted' = <<>>
  /\ wallet' = FlushChanged(wallet)
  /\ UNCHANGED <<txLoc, highestTxHeight>>

(* A page request fails on every history endpoint, or the answer has no
   transfers to sort: checkTransactions throws and checkTransactionsInnerLoop
   catches and returns false. *)
TxPageFail ==
  /\ TaskReturns(TxTask, "caught")
  /\ cyc' = [cyc EXCEPT !.result = "failed",
                        !.interrupted = @ + (IF Len(wallet.seen) > 0 THEN 1 ELSE 0)]
  /\ emitted' = <<>>
  /\ UNCHANGED <<txLoc, wallet, highestTxHeight>>

(* A page arrives: it is processed, and either the next page is requested or
   the walk ends, the watermark is committed and the notifications flushed. *)
TxPageOk ==
  LET s == PageStep(wallet, highestTxHeight, txLoc.newHighestTxHeight,
                    txLoc.pos, RemotePage(txLoc.lastActionSeqNumber, txLoc.pos))
      commit == s.newHighestTxHeight > highestTxHeight
      w2 == IF commit THEN [s.w EXCEPT !.dirty = TRUE] ELSE s.w
  IN /\ txLoc' = [txLoc EXCEPT !.newHighestTxHeight = s.newHighestTxHeight,
                               !.pos = s.pos]
     /\ IF s.more
        THEN /\ TaskAwaits(TxTask, "page")
             /\ wallet' = s.w
             /\ highestTxHeight' = highestTxHeight
             /\ emitted' = <<>>
             /\ cyc' = [cyc EXCEPT !.pages = @ + 1]
        ELSE /\ TaskReturns(TxTask, "ok")
             /\ wallet' = FlushChanged(w2)
             /\ highestTxHeight' = IF commit THEN s.newHighestTxHeight
                                   ELSE highestTxHeight
             /\ emitted' = FlushEvents(w2)
             /\ cyc' = [cyc EXCEPT !.result = "completed"]

TxPageReturn ==
  /\ pc[TxTask] = "page"
  /\ \E end \in HistoryEnds, body \in HistoryBodies :
       IF end = "thrown" \/ body = "error"
       THEN TxPageFail
       ELSE TxPageOk
  /\ UNCHANGED <<blockHeight, totalBalances, fioAddresses, fioDomains, engineOn,
                 eng, remote, mc, last>>

----------------------------------------------------------------------------
(* The history-sync specification: checkTransactionsInnerLoop is called
   again and again against one fixed remote history. *)

SyncRecord(h, a, id) ==
  [block_height |-> h, action |-> a, transaction_id |-> id,
   payee_public_key |-> LocalKey, payer |-> OtherActor,
   transfer_amount |-> 1, fee_amount |-> 0]

SyncRecords ==
  {SyncRecord(h, a, id) : h \in Heights, a \in {"trnsfiopubky", "transfer"}, id \in Txids}

SyncPages == UNION {[1..n -> SyncRecords] : n \in PageLens}

(* The remote: no action at all, or a latest action at some sequence number
   with one page per chunk of positions below it. *)
SyncRemotes ==
  {[actions |-> <<>>, hist |-> <<>>]} \cup
  {[actions |-> <<[account_action_seq |-> q]>>, hist |-> h] :
     q \in {0, 1}, h \in [1..1 -> SyncPages]} \cup
  {[actions |-> <<[account_action_seq |-> offset + 1]>>, hist |-> h] :
     h \in [1..2 -> SyncPages]}

EmptyWallet ==
  [txs |-> <<>>, changed |-> <<>>, dirty |-> FALSE, calls |-> <<>>, seen |-> <<>>]

NoCycle ==
  [n |-> 0, wm0 |-> 0, first |-> 0, pages |-> 0, result |-> "none", calls0 |-> 0,
   baseWm |-> 0, baseTxs |-> <<>>, interrupted |-> 0]

NoLast == [op |-> "none", stage |-> "done"]

NoLocals == [newHighestTxHeight |-> 0, lastActionSeqNumber |-> 0, pos |-> 0]

InitCommon ==
  /\ blockHeight = 0
  /\ totalBalances = [tk \in {"FIO"} |-> Undefined]
  /\ fioAddresses = <<>>
  /\ fioDomains = <<>>
  /\ wallet = EmptyWallet
  /\ engineOn = FALSE
  /\ timers = [t \in TaskNames |-> 0]
  /\ pc = [t \in TaskNames |-> "idle"]
  /\ txLoc = NoLocals
  /\ stale = [t \in TaskNames |-> FALSE]
  /\ inFlight = [t \in TaskNames |-> 0]
  /\ taskEnd = [t \in TaskNames |-> "none"]
  /\ eng = [starts |-> 0, resync |-> "idle"]
  /\ emitted = <<>>
  /\ cyc = NoCycle
  /\ mc = NoCall
  /\ last = NoLast

(* Watermark 100 and pages [150, 140, 130], [120, 110, 90], with a third page
   behind them. *)
ScenarioRemote ==
  [actions |-> <<[account_action_seq |-> (2 * offset) + 5]>>,
   hist |-> << <<SyncRecord(150, "trnsfiopubky", "s1"), SyncRecord(140, "trnsfiopubky", "s2"),
                 SyncRecord(130, "trnsfiopubky", "s3")>>,
               <<SyncRecord(120, "trnsfiopubky", "s4"), SyncRecord(110, "trnsfiopubky", "s5"),
                 SyncRecord(90, "trnsfiopubky", "s6")>>,
               <<SyncRecord(80, "trnsfiopubky", "s7")>> >>]

InitSync ==
  /\ InitCommon
  /\ \/ highestTxHeight \in Watermarks /\ remote \in SyncRemotes
     \/ highestTxHeight = 100 /\ remote = ScenarioRemote

(* A direct call of checkTransactionsInnerLoop *)
SyncInvoke ==
  /\ pc[TxTask] = "idle"
  /\ cyc.n < MaxCycles
  /\ pc' = [pc EXCEPT ![TxTask] = FirstAwait(TxTask)]
  /\ inFlight' = [inFlight EXCEPT ![TxTask] = @ + 1]
  /\ TxBegin
  /\ emitted' = <<>>
  /\ UNCHANGED <<ledgerVars, engineOn, timers, stale, taskEnd, eng, remote, mc, last>>

NextSync == SyncInvoke \/ TxPointerReturn \/ TxPageReturn

SpecSync == InitSync /\ [][NextSync]_vars

(* checkTransactions run from (wm, txs) with no request failing *)
RECURSIVE Walk(_, _, _, _)
Walk(w, hwm, newH, pos) ==
  LET s == PageStep(w, hwm, newH, pos,
                    RemotePage(remote.actions[1].account_action_seq, pos))
  IN IF s.more THEN Walk(s.w, hwm, s.newHighestTxHeight, s.pos) ELSE s

UninterruptedCycle(wm, txs) ==
  IF Len(remote.actions) = 0 \/ remote.actions[1].account_action_seq = 0
  THEN [txs |-> txs, highestTxHeight |-> wm]
  ELSE LET s == Walk([EmptyWallet EXCEPT !.txs = txs], wm, wm,
                     remote.actions[1].account_action_seq)
       IN [txs |-> s.w.txs,
           highestTxHeight |-> IF s.newHighestTxHeight > wm
                               THEN s.newHighestTxHeight ELSE wm]

(* C1: once a cycle has completed with no failing request, the set of
   recorded transactions and highestTxHeight are those one uninterrupted
   cycle yields from the state before the first of the interrupted cycles
   that preceded it. *)
C1_Resumable ==
  cyc.result \in {"completed", "noop"} =>
    LET ref == UninterruptedCycle(cyc.baseWm, cyc.baseTxs)
    IN /\ Range(wallet.txs) = Range(ref.txs)
       /\ highestTxHeight = ref.highestTxHeight

C1_Witness ==
  /\ cyc.result = "completed"
  /\ cyc.interrupted > 0
  /\ Range(wallet.txs) # Range(cyc.baseTxs)
  /\ highestTxHeight > cyc.baseWm

(* Every record of the remote history has a txid of its own *)
UniqueTxids ==
  \A k1, k2 \in 1..Len(remote.hist) :
    \A i \in 1..Len(remote.hist[k1]) : \A j \in 1..Len(remote.hist[k2]) :
      (k1 # k2 \/ i # j) =>
        remote.hist[k1][i].transaction_id # remote.hist[k2][j].transaction_id

(* C2: addTransaction is never called twice with the same txid, and a cycle
   adds no record whose height is at or below the watermark it started
   with.  Stated for the remote histories in which no two records share a
   txid, where a repeated call can only come from syncing again. *)
C2_NoDuplicateAdds ==
  UniqueTxids =>
    /\ \A i, j \in 1..Len(wallet.calls) :
          i < j => wallet.calls[i].txid # wallet.calls[j].txid
    /\ \A i \in 1..Len(wallet.calls) :
          i > cyc.calls0 => wallet.calls[i].blockHeight > cyc.wm0

(* The heights of all records in the pages the current cycle was sent *)
ReturnedHeights ==
  UNION {{remote.hist[k][i].block_height : i \in 1..Len(remote.hist[k])} :
           k \in 1..(IF cyc.pages < Len(remote.hist) THEN cyc.pages ELSE Len(remote.hist))}

AddedTxids(from) == {wallet.calls[i].txid : i \in (from + 1)..Len(wallet.calls)}

(* C6: no page is requested after a record below the watermark the cycle
   started with has been processed; a completed cycle leaves
   highestTxHeight at the maximum of that watermark and the heights seen;
   and from watermark 100 with pages [150,140,130], [120,110,90] the cycle
   ends at 150 having added 150..110, not 90, after two page requests. *)
C6_PagingStopsAtWatermark ==
  /\ \A i \in 1..Len(wallet.seen) :
        wallet.seen[i] < cyc.wm0 => i = Len(wallet.seen) /\ pc[TxTask] # "page"
  /\ cyc.result = "completed" =>
        highestTxHeight = MaxOf({cyc.wm0} \cup ReturnedHeights)
  /\ (remote = ScenarioRemote /\ cyc.n = 1 /\ cyc.result = "completed") =>
        /\ highestTxHeight = 150
        /\ AddedTxids(0) = {"s1", "s2", "s3", "s4", "s5"}
        /\ cyc.pages = 2

C6_Witness ==
  /\ remote = ScenarioRemote
  /\ cyc.n = 1
  /\ cyc.result = "completed"
  /\ wallet.seen = <<150, 140, 130, 120, 110, 90>>

----------------------------------------------------------------------------
(* updateBalance(tk, balance), on the balance table and the dirty flag; it
   returns both and the callbacks it made. *)

updateBalance_StringCompare(tb, dirty, tk, balance) ==
  LET tb1 == IF tb[tk] = Undefined THEN [tb EXCEPT ![tk] = Dec(0, 0)] ELSE tb
  IN IF balance # tb1[tk]
     THEN [totalBalances |-> [tb1 EXCEPT ![tk] = balance], dirty |-> TRUE,
           events |-> <<[cb |-> "onBalanceChanged", arg |-> <<tk, balance>>]>>]
     ELSE [totalBalances |-> tb1, dirty |-> dirty, events |-> <<>>]

updateBalance(tb, dirty, tk, balance) ==
  LET tb1 == IF tb[tk] = Undefined THEN [tb EXCEPT ![tk] = Dec(0, 0)] ELSE tb
  IN IF ~bnsEq(balance, tb1[tk])
     THEN [totalBalances |-> [tb1 EXCEPT ![tk] = balance], dirty |-> TRUE,
           events |-> <<[cb |-> "onBalanceChanged", arg |-> <<tk, balance>>]>>]
     ELSE [totalBalances |-> tb1, dirty |-> dirty, events |-> <<>>]

(* getBalance of the base engine: the cached balance, "0" when there is none *)
getBalance(tk) ==
  IF totalBalances[tk] = Undefined THEN Dec(0, 0) ELSE totalBalances[tk]

UpdateBalanceCall ==
  /\ last.stage = "done"
  /\ \E tk \in DOMAIN totalBalances, balance \in DecStrings :
       LET r == updateBalance(totalBalances, wallet.dirty, tk, balance)
       IN /\ totalBalances' = r.totalBalances
          /\ wallet' = [wallet EXCEPT !.dirty = r.dirty]
          /\ emitted' = r.events
          /\ last' = [op |-> "updateBalance", stage |-> "done", tk |-> tk,
                      balance |-> balance, pre |-> totalBalances[tk],
                      preDirty |-> wallet.dirty]
  /\ UNCHANGED <<blockHeight, highestTxHeight, fioAddresses, fioDomains, schedVars,
                 remote, cyc, mc>>

(* The persistence collaborator has written the snapshot and clears dirty *)
SaveDone ==
  /\ last.stage = "done"
  /\ wallet.dirty
  /\ wallet' = [wallet EXCEPT !.dirty = FALSE]
  /\ emitted' = <<>>
  /\ last' = NoLast
  /\ UNCHANGED <<ledgerVars, schedVars, remote, cyc, mc>>

----------------------------------------------------------------------------
(* makeSpend *)

NoTx == [txid |-> "none"]

(* makeSpend after the fee has arrived *)
makeSpend_Gte(quantity, fee, nativeBalance, publicAddress) ==
  IF ~bnsGt(nativeBalance, bnsAdd(quantity, NumStr(fee)))
  THEN [error |-> "InsufficientFundsError", tx |-> NoTx]
  ELSE [error |-> "none",
        tx |-> [txid |-> "", date |-> 0, blockHeight |-> 0,
                nativeAmount |-> bnsSub(Minus(quantity), NumStr(fee)),
                networkFee |-> NumStr(fee),
                ourReceiveAddresses |-> <<>>,
                to |-> publicAddress, quantity |-> quantity]]

makeSpend(quantity, fee, nativeBalance, publicAddress) ==
  IF bnsGt(bnsAdd(quantity, NumStr(fee)), nativeBalance)
  THEN [error |-> "InsufficientFundsError", tx |-> NoTx]
  ELSE [error |-> "none",
        tx |-> [txid |-> "", date |-> 0, blockHeight |-> 0,
                nativeAmount |-> bnsSub(Minus(quantity), NumStr(fee)),
                networkFee |-> NumStr(fee),
                ourReceiveAddresses |-> <<>>,
                to |-> publicAddress, quantity |-> quantity]]

(* makeSpend up to its await: super.makeSpend has read the spend target and
   the cached balance, and the fee request is in flight. *)
MakeSpendBegin ==
  /\ last.stage = "done"
  /\ \E a \in SpendAmounts :
       last' = [op |-> "makeSpend", stage |-> "await", quantity |-> NumStr(a),
                nativeBalance |-> getBalance("FIO"), publicAddress |-> OtherKey,
                fee |-> 0, error |-> "none", tx |-> NoTx]
  /\ emitted' = <<>>
  /\ UNCHANGED <<ledgerVars, wallet, schedVars, remote, cyc, mc>>

(* The fee request returns, or throws, which makeSpend lets through *)
MakeSpendFeeReturn ==
  /\ last.op = "makeSpend"
  /\ last.stage = "await"
  /\ \E outs \in ApiOuts, fee \in Fees :
       LET r == multicastServers("getFee", outs)
       IN IF r.status = "thrown"
          THEN last' = [last EXCEPT !.stage = "done", !.error = r.res.kind]
          ELSE LET m == makeSpend(last.quantity, fee, last.nativeBalance,
                                  last.publicAddress)
               IN last' = [last EXCEPT !.stage = "done", !.fee = fee,
                                       !.error = m.error, !.tx = m.tx]
  /\ emitted' = <<>>
  /\ UNCHANGED <<ledgerVars, wallet, schedVars, remote, cyc, mc>>

NoRemote == [actions |-> <<>>, hist |-> <<>>]

InitBalance ==
  /\ InitCommon
  /\ highestTxHeight = 0
  /\ remote = NoRemote

NextBalance == UpdateBalanceCall \/ SaveDone \/ MakeSpendBegin \/ MakeSpendFeeReturn

(* Direct calls of updateBalance and makeSpend on one engine *)
SpecBalance == InitBalance /\ [][NextBalance]_vars

CachedOrZero(v) == IF v = Undefined THEN Dec(0, 0) ELSE v

(* C3: updateBalance stores the new balance, sets dirty and calls
   onBalanceChanged exactly when the new balance differs as a decimal from
   the cached one, an absent one counting as 0; otherwise the cached value
   and the dirty flag stay as they were and nothing is notified. *)
C3_BalanceChangeIffDiffers ==
  last.op = "updateBalance" =>
    LET differs == (last.balance.m * Pow10(CachedOrZero(last.pre).s))
                     # (CachedOrZero(last.pre).m * Pow10(last.balance.s))
    IN IF differs
       THEN /\ totalBalances[last.tk] = last.balance
            /\ wallet.dirty
            /\ emitted = <<[cb |-> "onBalanceChanged", arg |-> <<last.tk, last.balance>>]>>
       ELSE /\ CachedOrZero(totalBalances[last.tk]) = CachedOrZero(last.pre)
            /\ wallet.dirty = last.preDirty
            /\ emitted = <<>>

(* "1.0" arrives while "1" is cached and the state is clean *)
C3_Witness ==
  /\ last.op = "updateBalance"
  /\ last.balance = Dec(10, 1)
  /\ last.pre = Dec(1, 0)
  /\ ~last.preDirty
  /\ totalBalances[last.tk] = Dec(1, 0)

(* C7: once the fee F has arrived, makeSpend for amount A with cached
   balance B fails with InsufficientFundsError exactly when A + F > B, and
   otherwise returns a transaction with nativeAmount -(A + F) and networkFee
   F; balance 100 and amount 90 fail with fee 20 and give -95 with fee 5. *)
C7_SpendFundsCheck ==
  (last.op = "makeSpend" /\ last.stage = "done"
     /\ last.error \notin {"unreachable", "FioError"}) =>
    LET A == last.quantity.m
        F == last.fee
        B == last.nativeBalance
    IN /\ (last.error = "InsufficientFundsError")
            <=> ((A + F) * Pow10(B.s) > B.m)
       /\ last.error = "none" =>
            /\ last.tx.nativeAmount = Dec(-(A + F), 0)
            /\ last.tx.networkFee = Dec(F, 0)
       /\ (A = 90 /\ B = Dec(100, 0) /\ F = 20) => last.error = "InsufficientFundsError"
       /\ (A = 90 /\ B = Dec(100, 0) /\ F = 5) =>
            last.error = "none" /\ last.tx.nativeAmount = Dec(-95, 0)

C7_Witness ==
  /\ last.op = "makeSpend"
  /\ last.stage = "done"
  /\ last.quantity = Dec(90, 0)
  /\ last.nativeBalance = Dec(100, 0)
  /\ last.fee = 5
  /\ last.tx # NoTx

----------------------------------------------------------------------------
(* processTransaction called on single records *)

CallRecords ==
  {[block_height |-> h, action |-> a, transaction_id |-> id,
    payee_public_key |-> k, payer |-> p, transfer_amount |-> 2, fee_amount |-> 0] :
     h \in Heights, a \in {"trnsfiopubky", "transfer", "regaddress"}, id \in Txids,
     k \in {LocalKey, OtherKey}, p \in {LocalActor, OtherActor}}

ProcessCall ==
  /\ Len(wallet.seen) < MaxProcessCalls
  /\ \E transfer \in CallRecords :
       /\ wallet' = processTransaction(wallet, highestTxHeight, transfer, LocalActor).w
       /\ last' = [op |-> "processTransaction", stage |-> "done",
                   transfer |-> transfer, ntxs |-> Len(wallet.txs)]
  /\ emitted' = <<>>
  /\ UNCHANGED <<ledgerVars, schedVars, remote, cyc, mc>>

InitProcess ==
  /\ InitCommon
  /\ highestTxHeight \in Watermarks
  /\ remote = NoRemote

NextProcess == ProcessCall

SpecProcess == InitProcess /\ [][NextProcess]_vars

(* C8: a trnsfiopubky record above the watermark is recorded with
   nativeAmount +transfer_amount and the local key as receive address when
   the payee key is the local key and the payer is not the local actor, 0
   when the payee key is the local key and the payer is the local actor, and
   -transfer_amount with no receive address when the payee key is not the
   local key. *)
C8_TransferDirection ==
  (last.op = "processTransaction" /\ last.transfer.action = "trnsfiopubky"
     /\ last.transfer.block_height > highestTxHeight) =>
    /\ Len(wallet.txs) = last.ntxs + 1
    /\ LET tx == wallet.txs[Len(wallet.txs)]
           t == last.transfer
       IN /\ tx.txid = t.transaction_id
          /\ (t.payee_public_key = LocalKey /\ t.payer # LocalActor) =>
               tx.nativeAmount = t.transfer_amount /\ tx.ourReceiveAddresses = <<LocalKey>>
          /\ (t.payee_public_key = LocalKey /\ t.payer = LocalActor) =>
               tx.nativeAmount = 0
          /\ t.payee_public_key # LocalKey =>
               tx.nativeAmount = -t.transfer_amount /\ tx.ourReceiveAddresses = <<>>

(* A self-to-self record has been recorded *)
C8_Witness ==
  /\ last.op = "processTransaction"
  /\ last.transfer.action = "trnsfiopubky"
  /\ last.transfer.block_height > highestTxHeight
  /\ last.transfer.payee_public_key = LocalKey
  /\ last.transfer.payer = LocalActor
  /\ Len(wallet.txs) = last.ntxs + 1
  /\ wallet.txs[Len(wallet.txs)].nativeAmount = 0

----------------------------------------------------------------------------
(* multicastServers, endpoint by endpoint *)

WaterfallAttempt ==
  /\ mc.status = "running"
  /\ mc' = asyncWaterfall(mc)
  /\ UNCHANGED <<ledgerVars, wallet, schedVars, remote, emitted, cyc, last>>

MulticastEnd ==
  /\ mc.status \in {"resolved", "rejected"}
  /\ mc' = multicastFinish(mc)
  /\ UNCHANGED <<ledgerVars, wallet, schedVars, remote, emitted, cyc, last>>

InitWaterfall ==
  /\ blockHeight = 0
  /\ totalBalances = [tk \in {"FIO"} |-> Undefined]
  /\ highestTxHeight = 0
  /\ fioAddresses = <<>>
  /\ fioDomains = <<>>
  /\ wallet = EmptyWallet
  /\ engineOn = FALSE
  /\ timers = [t \in TaskNames |-> 0]
  /\ pc = [t \in TaskNames |-> "idle"]
  /\ txLoc = NoLocals
  /\ stale = [t \in TaskNames |-> FALSE]
  /\ inFlight = [t \in TaskNames |-> 0]
  /\ taskEnd = [t \in TaskNames |-> "none"]
  /\ eng = [starts |-> 0, resync |-> "idle"]
  /\ remote = NoRemote
  /\ emitted = <<>>
  /\ cyc = NoCycle
  /\ last = NoLast
  /\ \E n \in 1..MaxEndpoints :
       \/ \E outs \in [1..n -> EndpointOutcomes] : mc = NewCall("getFee", outs)
       \/ \E outs \in [1..n -> HistoryOutcomes] : mc = NewCall("history", outs)

NextWaterfall == WaterfallAttempt \/ MulticastEnd

SpecWaterfall == InitWaterfall /\ [][NextWaterfall]_vars

(* An endpoint failure that is not an application rejection *)
TransportFailure(o) == o.kind = "throw" /\ o.errorCode \notin fioApiErrorCodes

(* The number of leading endpoints that fail with transport errors *)
LeadingFailures(outs) ==
  IF \E i \in 1..Len(outs) : ~TransportFailure(outs[i])
  THEN (CHOOSE i \in 1..Len(outs) :
          ~TransportFailure(outs[i]) /\ \A j \in 1..(i - 1) : TransportFailure(outs[j])) - 1
  ELSE Len(outs)

(* C4: endpoints are attempted in list order, and when the first K fail with
   transport errors and endpoint K+1 answers, the call returns the answer of
   endpoint K+1 having invoked exactly endpoints 1..K+1. *)
C4_FailoverFirstSuccess ==
  LET K == LeadingFailures(mc.outs)
  IN /\ \A i \in 1..Len(mc.invoked) : mc.invoked[i] = i
     /\ (mc.status \in {"returned", "thrown"} /\ K < Len(mc.outs)
          /\ mc.outs[K + 1].kind = "ok") =>
          /\ mc.status = "returned"
          /\ mc.res.from = K + 1
          /\ mc.invoked = [i \in 1..(K + 1) |-> i]

(* Three endpoints, the first fails, the second answers, the third is left *)
C4_Witness ==
  /\ mc.status = "returned"
  /\ mc.actionName # "history"
  /\ Len(mc.outs) = 3
  /\ TransportFailure(mc.outs[1])
  /\ mc.outs[2].kind = "ok"
  /\ mc.invoked = <<1, 2>>

(* C5: when the first endpoint rejects the request with code 400, 403 or
   404, no other endpoint is tried and the call throws an error carrying
   that code, not the all-endpoints-unreachable failure. *)
C5_RejectionSurfaces ==
  (mc.actionName # "history" /\ mc.status \in {"returned", "thrown"}
     /\ mc.outs[1].kind = "throw" /\ mc.outs[1].errorCode \in {400, 403, 404}) =>
    /\ mc.invoked = <<1>>
    /\ mc.status = "thrown"
    /\ mc.res.kind = "FioError"
    /\ mc.res.code = mc.outs[1].errorCode

C5_Witness ==
  /\ mc.status = "thrown"
  /\ mc.res.kind = "FioError"
  /\ mc.res.code = 403
  /\ Len(mc.outs) = 2
  /\ mc.outs[2].kind = "ok"
  /\ mc.invoked = <<1>>

----------------------------------------------------------------------------
(* checkBlockchainInnerLoop *)

ChainHeights == 1..2

(* BlockchainOk that empties the transaction list when the height changes *)
BlockchainOk_DropsTransactions(h) ==
  /\ TaskReturns(BlockchainTask, "ok")
  /\ IF blockHeight # h
     THEN /\ blockHeight' = h
          /\ wallet' = [wallet EXCEPT !.dirty = TRUE, !.txs = <<>>]
          /\ emitted' = <<[cb |-> "onBlockHeightChanged", arg |-> h]>>
     ELSE /\ emitted' = <<>>
          /\ UNCHANGED <<blockHeight, wallet>>

(* getChainInfo answered with head_block_num h *)
BlockchainOk(h) ==
  /\ TaskReturns(BlockchainTask, "ok")
  /\ IF blockHeight # h
     THEN /\ blockHeight' = h
          /\ wallet' = [wallet EXCEPT !.dirty = TRUE]
          /\ emitted' = <<[cb |-> "onBlockHeightChanged", arg |-> h]>>
     ELSE /\ emitted' = <<>>
          /\ UNCHANGED <<blockHeight, wallet>>

(* BlockchainFail without the catch: the error leaves the task function *)
BlockchainFail_NoCatch ==
  /\ TaskThrows(BlockchainTask)
  /\ emitted' = <<>>
  /\ UNCHANGED <<blockHeight, wallet>>

(* getChainInfo failed: the catch logs the error and the function returns *)
BlockchainFail ==
  /\ TaskReturns(BlockchainTask, "caught")
  /\ emitted' = <<>>
  /\ UNCHANGED <<blockHeight, wallet>>

BlockchainReturn ==
  /\ pc[BlockchainTask] = "chainInfo"
  /\ \E end \in ApiEnds, h \in ChainHeights :
       IF end = "returned"
       THEN BlockchainOk(h)
       ELSE BlockchainFail
  /\ UNCHANGED <<totalBalances, highestTxHeight, fioAddresses, fioDomains, engineOn,
                 txLoc, eng, remote, cyc, mc, last>>

----------------------------------------------------------------------------
(* checkAccountInnerLoop *)

(* The index of the first entry of list with this name, 0 when none *)
FindName(list, name) ==
  IF \E i \in 1..Len(list) : list[i].name = name
  THEN CHOOSE i \in 1..Len(list) :
         list[i].name = name /\ \A j \in 1..(i - 1) : list[j].name # name
  ELSE 0

(* !!is_public *)
ToBool(v) == v # 0

(* MergeAddresses that writes the expiration of a known name and flags a
   change without comparing *)
RECURSIVE MergeAddresses_AlwaysChanged(_, _, _, _)
MergeAddresses_AlwaysChanged(list, resp, i, isChanged) ==
  IF i > Len(resp)
  THEN [list |-> list, isChanged |-> isChanged]
  ELSE LET a == resp[i]
           at == FindName(list, a.fio_address)
       IN IF at > 0
          THEN MergeAddresses_AlwaysChanged(
                 [list EXCEPT ![at].expiration = a.expiration], resp, i + 1, TRUE)
          ELSE MergeAddresses_AlwaysChanged(
                 Append(list, [name |-> a.fio_address, expiration |-> a.expiration]),
                 resp, i + 1, TRUE)

(* The loop over result.fio_addresses, from entry i on *)
RECURSIVE MergeAddresses(_, _, _, _)
MergeAddresses(list, resp, i, isChanged) ==
  IF i > Len(resp)
  THEN [list |-> list, isChanged |-> isChanged]
  ELSE LET a == resp[i]
           at == FindName(list, a.fio_address)
       IN IF at > 0
          THEN IF list[at].expiration # a.expiration
               THEN MergeAddresses([list EXCEPT ![at].expiration = a.expiration],
                                   resp, i + 1, TRUE)
               ELSE MergeAddresses(list, resp, i + 1, isChanged)
          ELSE MergeAddresses(
                 Append(list, [name |-> a.fio_address, expiration |-> a.expiration]),
                 resp, i + 1, TRUE)

(* The loop over result.fio_domains, from entry i on *)
RECURSIVE MergeDomains(_, _, _, _)
MergeDomains(list, resp, i, isChanged) ==
  IF i > Len(resp)
  THEN [list |-> list, isChanged |-> isChanged]
  ELSE LET d == resp[i]
           at == FindName(list, d.fio_domain)
       IN IF at > 0
          THEN LET e == list[at].expiration # d.expiration
                   q == list[at].isPublic # ToBool(d.is_public)
               IN MergeDomains([list EXCEPT ![at].expiration = d.expiration,
                                            ![at].isPublic = ToBool(d.is_public)],
                               resp, i + 1, isChanged \/ e \/ q)
          ELSE MergeDomains(
                 Append(list, [name |-> d.fio_domain, expiration |-> d.expiration,
                               isPublic |-> ToBool(d.is_public)]),
                 resp, i + 1, TRUE)

Expirations == 1..2

(* What getFioNames may answer *)
NamesResponses ==
  [fio_addresses :
     {<<>>} \cup {<<[fio_address |-> "a@d", expiration |-> e]>> : e \in Expirations},
   fio_domains :
     {<<>>} \cup {<<[fio_domain |-> "d", expiration |-> 1, is_public |-> q]>> :
                    q \in {0, 1}}]

(* What getFioBalance may answer *)
BalanceResponses == {Dec(1, 0), Dec(10, 1)}

(* checkAccountInnerLoop up to its first await *)
AccountBegin ==
  totalBalances' = IF totalBalances["FIO"] = Undefined
                   THEN [totalBalances EXCEPT !["FIO"] = Dec(0, 0)]
                   ELSE totalBalances

(* The code after the balance try/catch: nativeAmount goes to updateBalance *)
AccountUpdateBalance(nativeAmount) ==
  LET r == updateBalance(totalBalances, wallet.dirty, "FIO", nativeAmount)
  IN /\ totalBalances' = r.totalBalances
     /\ wallet' = [wallet EXCEPT !.dirty = r.dirty]
     /\ emitted' = r.events

(* getFioBalance answered: nativeAmount is the balance of the answer *)
AccountBalanceOk(balance) == AccountUpdateBalance(balance)

(* getFioBalance failed on every endpoint: the catch sets nativeAmount to "0" *)
AccountBalanceFail == AccountUpdateBalance(Dec(0, 0))

(* getFioBalance answered or failed; the balance, "0" after a failure, goes
   to updateBalance and getFioNames is requested. *)
AccountBalanceReturn ==
  /\ pc[AccountTask] = "balance"
  /\ \E end \in ApiEnds, balance \in BalanceResponses :
       IF end = "returned"
       THEN AccountBalanceOk(balance)
       ELSE AccountBalanceFail
  /\ TaskAwaits(AccountTask, "names")
  /\ UNCHANGED <<blockHeight, highestTxHeight, fioAddresses, fioDomains, engineOn,
                 txLoc, eng, remote, cyc, mc, last>>

(* MergeNames that takes the answer as the new lists *)
MergeNames_Replace(addresses, domains, result) ==
  LET a == MergeAddresses(<<>>, result.fio_addresses, 1, FALSE)
      d == MergeDomains(<<>>, result.fio_domains, 1, FALSE)
  IN [fioAddresses |-> a.list, fioDomains |-> d.list,
      isChanged |-> a.list # addresses \/ d.list # domains]

(* The try block after getFioNames answered: both loops, one isChanged *)
MergeNames(addresses, domains, result) ==
  LET a == MergeAddresses(addresses, result.fio_addresses, 1, FALSE)
      d == MergeDomains(domains, result.fio_domains, 1, a.isChanged)
  IN [fioAddresses |-> a.list, fioDomains |-> d.list, isChanged |-> d.isChanged]

(* getFioNames answered: both lists are merged *)
AccountNamesOk(result) ==
  LET m == MergeNames(fioAddresses, fioDomains, result)
  IN /\ fioAddresses' = m.fioAddresses
     /\ fioDomains' = m.fioDomains
     /\ wallet' = IF m.isChanged THEN [wallet EXCEPT !.dirty = TRUE] ELSE wallet
     /\ TaskReturns(AccountTask, "ok")

(* getFioNames failed: the catch logs the error *)
AccountNamesFail ==
  /\ TaskReturns(AccountTask, "caught")
  /\ UNCHANGED <<fioAddresses, fioDomains, wallet>>

AccountNamesReturn ==
  /\ pc[AccountTask] = "names"
  /\ \E end \in ApiEnds, result \in NamesResponses :
       IF end = "returned"
       THEN AccountNamesOk(result)
       ELSE AccountNamesFail
  /\ emitted' = <<>>
  /\ UNCHANGED <<blockHeight, totalBalances, highestTxHeight, engineOn, txLoc, eng,
                 remote, cyc, mc, last>>

----------------------------------------------------------------------------
(* startEngine, killEngine, resyncBlockchain *)

(* Loops without the single-flight test *)
Loops_Always(t) == t \in TaskNames

(* addToLoop(t) from startEngine or from the timer: the task function runs to
   its first await, unless an invocation of t is still running. *)
Loops(t) == pc[t] = "idle"

(* startEngine: the flag is set and the three loops are entered *)
startEngine ==
  /\ engineOn' = TRUE
  /\ pc' = [t \in TaskNames |-> IF Loops(t) THEN FirstAwait(t) ELSE pc[t]]
  /\ inFlight' = [t \in TaskNames |-> IF Loops(t) THEN inFlight[t] + 1 ELSE inFlight[t]]
  /\ IF Loops(AccountTask) THEN AccountBegin ELSE totalBalances' = totalBalances
  /\ IF Loops(TxTask) THEN TxBegin ELSE UNCHANGED <<txLoc, wallet, cyc>>
  /\ eng' = [eng EXCEPT !.starts = @ + 1, !.resync = "idle"]
  /\ emitted' = <<>>
  /\ UNCHANGED <<blockHeight, highestTxHeight, fioAddresses, fioDomains, timers,
                 stale, taskEnd, remote, mc, last>>

(* killEngine of the base engine: the flag is cleared and the pending timers
   are cancelled; the invocations in flight are left to finish. *)
killEngine ==
  /\ engineOn' = FALSE
  /\ timers' = [t \in TaskNames |-> 0]
  /\ stale' = [t \in TaskNames |-> pc[t] # "idle"]
  /\ emitted' = <<>>

(* clearBlockchainCache of the base engine: the height and the transaction
   list are emptied, the balances remain. *)
superClearBlockchainCache ==
  /\ blockHeight' = 0
  /\ wallet' = [wallet EXCEPT !.txs = <<>>, !.changed = <<>>, !.dirty = TRUE]

clearBlockchainCache ==
  /\ superClearBlockchainCache
  /\ highestTxHeight' = 0
  /\ fioAddresses' = <<>>
  /\ UNCHANGED fioDomains

StartEngine ==
  /\ ~engineOn
  /\ eng.resync = "idle"
  /\ eng.starts < MaxStarts
  /\ cyc.n < MaxCycles
  /\ startEngine

KillEngine ==
  /\ engineOn
  /\ eng.resync = "idle"
  /\ killEngine
  /\ UNCHANGED <<ledgerVars, wallet, pc, txLoc, inFlight, taskEnd, eng, remote, cyc,
                 mc, last>>

(* resyncBlockchain, one step per await *)
ResyncKill ==
  /\ eng.resync = "idle"
  /\ eng.starts < MaxStarts
  /\ cyc.n < MaxCycles
  /\ killEngine
  /\ eng' = [eng EXCEPT !.resync = "killed"]
  /\ UNCHANGED <<ledgerVars, wallet, pc, txLoc, inFlight, taskEnd, remote, cyc, mc,
                 last>>

ResyncClear ==
  /\ eng.resync = "killed"
  /\ clearBlockchainCache
  /\ eng' = [eng EXCEPT !.resync = "cleared"]
  /\ emitted' = <<>>
  /\ UNCHANGED <<totalBalances, engineOn, timers, pc, txLoc, stale, inFlight, taskEnd,
                 remote, cyc, mc, last>>

ResyncStart ==
  /\ eng.resync = "cleared"
  /\ startEngine

(* The timer of task t fires: addToLoop again, while the engine is on *)
TimerFire(t) ==
  /\ timers[t] = 1
  /\ engineOn
  /\ Loops(t)
  /\ t = TxTask => cyc.n < MaxCycles
  /\ timers' = [timers EXCEPT ![t] = 0]
  /\ pc' = [pc EXCEPT ![t] = FirstAwait(t)]
  /\ inFlight' = [inFlight EXCEPT ![t] = @ + 1]
  /\ IF t = AccountTask THEN AccountBegin ELSE totalBalances' = totalBalances
  /\ IF t = TxTask THEN TxBegin ELSE UNCHANGED <<txLoc, wallet, cyc>>
  /\ emitted' = <<>>
  /\ UNCHANGED <<blockHeight, highestTxHeight, fioAddresses, fioDomains, engineOn,
                 stale, taskEnd, eng, remote, mc, last>>

(* One page of history with one transfer to the wallet, or no history *)
EngineRemotes ==
  {NoRemote,
   [actions |-> <<[account_action_seq |-> 1]>>,
    hist |-> <<<<SyncRecord(1, "trnsfiopubky", "tA")>>>>]}

InitEngine ==
  /\ InitCommon
  /\ highestTxHeight = 0
  /\ remote \in EngineRemotes

NextEngine ==
  \/ StartEngine
  \/ KillEngine
  \/ ResyncKill
  \/ ResyncClear
  \/ ResyncStart
  \/ \E t \in TaskNames : TimerFire(t)
  \/ BlockchainReturn
  \/ AccountBalanceReturn
  \/ AccountNamesReturn
  \/ TxPointerReturn
  \/ TxPageReturn

SpecEngine == InitEngine /\ [][NextEngine]_vars

(* The invocation of task t takes a step: it resumes from an await *)
Resumes(t) == pc[t] # "idle" /\ pc'[t] # pc[t]

(* C9: whatever the endpoints do, a step of a polling task never throws into
   the scheduler and never turns the engine off, and when the invocation ends
   while the engine is on, the timer for its next run is armed. *)
C9_TasksNeverPropagate ==
  [][\A t \in TaskNames :
       Resumes(t) =>
         /\ taskEnd'[t] # "threw"
         /\ engineOn' = engineOn
         /\ (pc'[t] = "idle" /\ engineOn) => timers'[t] = 1]_vars

(* Every task has ended at least one invocation in a catch of a failed call,
   the engine is on and every task is running again or waits on its timer;
   the history task has started its second run. *)
C9_Witness ==
  /\ engineOn
  /\ \A t \in TaskNames : taskEnd[t] = "caught"
  /\ \A t \in TaskNames : pc[t] # "idle" \/ timers[t] = 1
  /\ cyc.n = 2
  /\ cyc.result = "running"

(* C10: an invocation that was in flight when the engine was killed changes
   no ledger field and no transaction and emits no notification when it
   resumes. *)
C10_StaleInvocationCommitsNothing ==
  [][\A t \in TaskNames :
       (stale[t] /\ Resumes(t)) =>
         /\ UNCHANGED ledgerVars
         /\ wallet'.txs = wallet.txs
         /\ emitted' = <<>>]_vars

(* C11: the clear step of a resync leaves the watermark at 0 and the address
   list and the domain list empty. *)
C11_ClearEmptiesLedger ==
  [][(eng.resync = "killed" /\ eng'.resync = "cleared") =>
       /\ highestTxHeight' = 0
       /\ fioAddresses' = <<>>
       /\ fioDomains' = <<>>]_vars

(* C12: no task has two invocations in flight, whatever the order of timer
   firings, starts, stops and resyncs. *)
C12_SingleFlight ==
  \A t \in TaskNames : inFlight[t] <= 1

(* A resync has restarted the engine while the invocations begun before it
   are still awaiting their remote calls. *)
C12_Witness ==
  /\ engineOn
  /\ eng.starts = 2
  /\ eng.resync = "idle"
  /\ \A t \in TaskNames : stale[t] /\ pc[t] # "idle" /\ inFlight[t] = 1

----------------------------------------------------------------------------
(* History sync: the watermark, the latest-action pointer, the page count *)

(* Every record of the remote history *)
RemoteRecords ==
  UNION {{remote.hist[k][i] : i \in 1..Len(remote.hist[k])} :
           k \in 1..Len(remote.hist)}

LocalTxids == {wallet.txs[i].txid : i \in 1..Len(wallet.txs)}

(* C13: once a cycle has completed, starting from an empty wallet with
   watermark 0, every trnsfiopubky or transfer record of the remote history
   at or below highestTxHeight has a local transaction with its txid. *)
C13_WatermarkComplete ==
  (cyc.result = "completed" /\ cyc.first = 0) =>
    \A r \in RemoteRecords :
      (r.action \in {"trnsfiopubky", "transfer"} /\ r.block_height <= highestTxHeight)
        => r.transaction_id \in LocalTxids

----------------------------------------------------------------------------
(* The engine running: block height, watermark, dirty flag *)

(* C14: a step of the block-height poll never lowers the cached
   blockHeight, whatever height the answering endpoint reports. *)
C14_BlockHeightMonotone ==
  [][Resumes(BlockchainTask) => blockHeight' >= blockHeight]_vars

(* The step is the clear step of a resync *)
IsClearStep == eng.resync = "killed" /\ eng'.resync = "cleared"

(* C15: highestTxHeight is lowered by no step of a history cycle, of the
   metadata poll, of the height poll, of a start or of a stop; the one step
   that lowers it is the clear step of a resync, which sets it to 0. *)
C15_WatermarkMonotone ==
  [][highestTxHeight' < highestTxHeight => (IsClearStep /\ highestTxHeight' = 0)]_vars

(* A completed cycle had raised the watermark and the clear step of a
   resync has put it back to 0. *)
C15_Witness ==
  /\ eng.resync = "cleared"
  /\ highestTxHeight = 0
  /\ cyc.result = "completed"
  /\ Len(wallet.calls) > 0
  /\ pc[TxTask] = "idle"

(* C16: every step that changes blockHeight, a balance entry (its
   initialisation to 0 included), highestTxHeight, the address list or the
   domain list leaves the dirty flag set. *)
C16_MutationsSetDirty ==
  [][ledgerVars' # ledgerVars => wallet'.dirty]_vars

----------------------------------------------------------------------------
(* The address and domain lists: the merge of checkAccountInnerLoop and the
   register / renew cases of fioAction, applied to one wallet. *)

(* renewFioAddress after both awaits *)
renewFioAddress(list, fioAddress, expiration) ==
  LET at == FindName(list, fioAddress)
  IN IF at > 0
     THEN [list |-> [list EXCEPT ![at].expiration = expiration], dirty |-> TRUE]
     ELSE [list |-> list, dirty |-> FALSE]

(* registerFioAddress that appends without looking the name up *)
registerFioAddress_NoFind(list, fioAddress, expiration, ownerPublicKey) ==
  IF ownerPublicKey # "" /\ ownerPublicKey # LocalKey
  THEN [list |-> list, dirty |-> FALSE]
  ELSE [list |-> Append(list, [name |-> fioAddress, expiration |-> expiration]),
        dirty |-> TRUE]

(* registerFioAddress after both awaits *)
registerFioAddress(list, fioAddress, expiration, ownerPublicKey) ==
  IF ownerPublicKey # "" /\ ownerPublicKey # LocalKey
  THEN [list |-> list, dirty |-> FALSE]
  ELSE IF FindName(list, fioAddress) = 0
       THEN [list |-> Append(list, [name |-> fioAddress, expiration |-> expiration]),
             dirty |-> TRUE]
       ELSE [list |-> list, dirty |-> FALSE]

(* renewFioDomain after both awaits *)
renewFioDomain(list, fioDomain, expiration) ==
  LET at == FindName(list, fioDomain)
  IN IF at > 0
     THEN [list |-> [list EXCEPT ![at].expiration = expiration], dirty |-> TRUE]
     ELSE [list |-> list, dirty |-> FALSE]

AddressNames == {"a@d", "b@d"}
DomainNames == {"d"}

(* Sequences of at most two entries with different names *)
UniqueSeqs(S, key) ==
  {<<>>} \cup {<<x>> : x \in S} \cup
  UNION {{<<x, y>> : y \in {z \in S : z[key] # x[key]}} : x \in S}

(* What getFioNames may answer: the names of one key, each once *)
MetaResponses ==
  [fio_addresses :
     UniqueSeqs([fio_address : AddressNames, expiration : Expirations], "fio_address"),
   fio_domains :
     UniqueSeqs([fio_domain : DomainNames, expiration : {1},
                 is_public : {0, 1}], "fio_domain")]

(* getFioNames answered and the try block of checkAccountInnerLoop has run *)
NamesMerged ==
  \E result \in MetaResponses :
    LET m == MergeNames(fioAddresses, fioDomains, result)
        dirty2 == IF m.isChanged THEN TRUE ELSE wallet.dirty
    IN /\ fioAddresses' = m.fioAddresses
       /\ fioDomains' = m.fioDomains
       /\ wallet' = [wallet EXCEPT !.dirty = dirty2]
       /\ last' = [op |-> "getFioNames", stage |-> "done", result |-> result,
                   repeat |-> last.op = "getFioNames" /\ last.result = result,
                   preAddresses |-> fioAddresses, preDomains |-> fioDomains,
                   preDirty |-> wallet.dirty, postDirty |-> dirty2,
                   isChanged |-> m.isChanged]
       /\ emitted' = <<>>
       /\ UNCHANGED <<blockHeight, totalBalances, highestTxHeight, schedVars, remote,
                      cyc, mc>>

(* A register or renew case of fioAction has its answer: the lists after it *)
fioAction(actionName, name, expiration, ownerPublicKey) ==
  IF actionName = "renewFioAddress"
  THEN [fioAddresses |-> renewFioAddress(fioAddresses, name, expiration).list,
        fioDomains |-> fioDomains,
        dirty |-> renewFioAddress(fioAddresses, name, expiration).dirty]
  ELSE IF actionName = "registerFioAddress"
  THEN [fioAddresses |->
          registerFioAddress(fioAddresses, name, expiration, ownerPublicKey).list,
        fioDomains |-> fioDomains,
        dirty |-> registerFioAddress(fioAddresses, name, expiration, ownerPublicKey).dirty]
  ELSE [fioAddresses |-> fioAddresses,
        fioDomains |-> renewFioDomain(fioDomains, name, expiration).list,
        dirty |-> renewFioDomain(fioDomains, name, expiration).dirty]

(* The calls of fioAction that touch the lists *)
FioActionCalls ==
  [actionName : {"renewFioAddress"}, name : AddressNames, expiration : Expirations,
   ownerPublicKey : {""}] \cup
  [actionName : {"registerFioAddress"}, name : AddressNames, expiration : Expirations,
   ownerPublicKey : {"", LocalKey, OtherKey}] \cup
  [actionName : {"renewFioDomain"}, name : DomainNames, expiration : Expirations,
   ownerPublicKey : {""}]

FioActionDone ==
  \E c \in FioActionCalls :
    LET r == fioAction(c.actionName, c.name, c.expiration, c.ownerPublicKey)
        dirty2 == wallet.dirty \/ r.dirty
    IN /\ fioAddresses' = r.fioAddresses
       /\ fioDomains' = r.fioDomains
       /\ wallet' = [wallet EXCEPT !.dirty = dirty2]
       /\ last' = [op |-> c.actionName, stage |-> "done", result |-> c.name,
                   repeat |-> FALSE,
                   preAddresses |-> fioAddresses, preDomains |-> fioDomains,
                   preDirty |-> wallet.dirty, postDirty |-> dirty2,
                   isChanged |-> r.dirty]
       /\ emitted' = <<>>
       /\ UNCHANGED <<blockHeight, totalBalances, highestTxHeight, schedVars, remote,
                      cyc, mc>>

(* The persistence collaborator has written the snapshot *)
Persisted ==
  /\ wallet.dirty
  /\ wallet' = [wallet EXCEPT !.dirty = FALSE]
  /\ emitted' = <<>>
  /\ UNCHANGED <<ledgerVars, schedVars, remote, cyc, mc, last>>

InitMetadata ==
  /\ InitCommon
  /\ highestTxHeight = 0
  /\ remote = NoRemote

NextMetadata == NamesMerged \/ FioActionDone \/ Persisted

SpecMetadata == InitMetadata /\ [][NextMetadata]_vars

NamesOf(list) == {list[i].name : i \in 1..Len(list)}

(* C17: a merge, a register or a renew removes no name from either list,
   and after a merge every address of the answer is in the address list
   under its name with the answer's expiration, and every domain of the
   answer is in the domain list with the answer's expiration and
   visibility. *)
C17_MergeIsUnionWithUpdate ==
  last.op # "none" =>
    /\ NamesOf(last.preAddresses) \subseteq NamesOf(fioAddresses)
    /\ NamesOf(last.preDomains) \subseteq NamesOf(fioDomains)
    /\ last.op = "getFioNames" =>
         /\ \A i \in 1..Len(last.result.fio_addresses) :
              \E j \in 1..Len(fioAddresses) :
                /\ fioAddresses[j].name = last.result.fio_addresses[i].fio_address
                /\ fioAddresses[j].expiration = last.result.fio_addresses[i].expiration
         /\ \A i \in 1..Len(last.result.fio_domains) :
              \E j \in 1..Len(fioDomains) :
                /\ fioDomains[j].name = last.result.fio_domains[i].fio_domain
                /\ fioDomains[j].expiration = last.result.fio_domains[i].expiration
                /\ fioDomains[j].isPublic = (last.result.fio_domains[i].is_public = 1)

(* The answer left out a local address and a local domain, renewed another
   address and brought nothing new: both lists keep their entries. *)
C17_Witness ==
  /\ last.op = "getFioNames"
  /\ Len(last.preAddresses) = 2
  /\ Len(last.preDomains) = 1
  /\ Len(last.result.fio_addresses) = 1
  /\ last.result.fio_domains = <<>>
  /\ last.isChanged
  /\ Len(fioAddresses) = 2
  /\ Len(fioDomains) = 1

(* C18: a merge of the answer that the merge before it applied changes
   neither list, finds nothing changed, and leaves the dirty flag as it
   was. *)
C18_MergeIdempotent ==
  (last.op = "getFioNames" /\ last.repeat) =>
    /\ fioAddresses = last.preAddresses
    /\ fioDomains = last.preDomains
    /\ ~last.isChanged
    /\ last.postDirty = last.preDirty

(* The same answer, with two addresses and a domain, merged twice with a
   save in between: dirty is still false after the second merge. *)
C18_Witness ==
  /\ last.op = "getFioNames"
  /\ last.repeat
  /\ Len(last.result.fio_addresses) = 2
  /\ Len(last.result.fio_domains) = 1
  /\ ~last.preDirty
  /\ ~wallet.dirty

----------------------------------------------------------------------------
(* History sync: the latest-action pointer and the number of requests *)

(* C19: a cycle ends as a success without a page request only when the
   latest-action query returned no action, and then it changes nothing; when
   the query returned an action, whatever its sequence number, a first page
   is requested at that sequence number. *)
C19_PointerStartsPaging ==
  /\ cyc.result = "noop" =>
       /\ remote.actions = <<>>
       /\ cyc.pages = 0
       /\ Len(wallet.calls) = cyc.calls0
       /\ highestTxHeight = cyc.wm0
  /\ (pc[TxTask] = "page" /\ cyc.pages = 1) =>
       txLoc.pos = remote.actions[1].account_action_seq

(* The most page requests a cycle may make from the pointer the remote holds *)
PageBound ==
  IF remote.actions = <<>>
  THEN 0
  ELSE (remote.actions[1].account_action_seq \div offset) + 1

(* C20: a cycle from pointer position P makes at most floor(P / 10) + 1 page
   requests, whatever the pages hold, and none when there is no pointer. *)
C20_BoundedRequests ==
  cyc.pages <= PageBound

(* A cycle from position 11 has requested its two pages and ended with the
   cursor below zero. *)
C20_Witness ==
  /\ cyc.result = "completed"
  /\ remote.actions # <<>>
  /\ cyc.pages = 2
  /\ cyc.pages = PageBound
  /\ txLoc.pos < 0

(* The step of the account task in which the balance query has failed on
   every endpoint *)
BalanceQueryFailed ==
  /\ pc[AccountTask] = "balance"
  /\ pc'[AccountTask] = "names"
  /\ AccountBalanceFail

(* C21: when the balance query fails on every endpoint, the cached balance
   keeps its value and no onBalanceChanged notification is emitted. *)
C21_FailedBalanceKeepsCache ==
  [][BalanceQueryFailed =>
       /\ totalBalances' = totalBalances
       /\ \A i \in 1..Len(emitted') : emitted'[i].cb # "onBalanceChanged"]_vars

----------------------------------------------------------------------------
(* broadcastTx *)

(* bns.abs *)
bnsAbs(x) == Dec(IF x.m < 0 THEN -x.m ELSE x.m, x.s)

(* The parameters broadcastTx hands to transferTokens, with the fee added to
   nativeAmount the wrong way round: the fee is taken off once more *)
transferTokensParams_FeeSubtracted(tx) ==
  [payeeFioPublicKey |-> tx.to,
   amount |-> bnsAbs(bnsSub(tx.nativeAmount, tx.networkFee)),
   maxFee |-> tx.networkFee]

(* The parameters broadcastTx hands to transferTokens *)
transferTokensParams(tx) ==
  [payeeFioPublicKey |-> tx.to,
   amount |-> bnsAbs(bnsAdd(tx.nativeAmount, tx.networkFee)),
   maxFee |-> tx.networkFee]

NoParams == [payeeFioPublicKey |-> "none"]

(* What transferTokens may answer, and the clock readings in milliseconds *)
TransferResponses == [transaction_id : Txids, block_num : Heights]
ClockMs == {1000, 2000}

(* broadcastTx that writes the fields of the answer whatever the call did *)
broadcastTx_AlwaysWrites(tx, r, transfer, now) ==
  [error |-> IF r.status = "thrown" THEN r.res.kind ELSE "none",
   tx |-> [tx EXCEPT !.txid = transfer.transaction_id,
                     !.date = now \div 1000,
                     !.blockHeight = transfer.block_num]]

(* broadcastTx after its await: r is how multicastServers ended, transfer
   its answer, now the reading of Date.now() *)
broadcastTx(tx, r, transfer, now) ==
  IF r.status = "thrown"
  THEN [error |-> r.res.kind, tx |-> tx]
  ELSE [error |-> "none",
        tx |-> [tx EXCEPT !.txid = transfer.transaction_id,
                          !.date = now \div 1000,
                          !.blockHeight = transfer.block_num]]

(* broadcastTx up to its await, called with the transaction makeSpend built
   or with that transaction stripped of otherParams.transactionJson: without
   the payload it throws at once, with it the transfer request is in flight. *)
BroadcastBegin ==
  /\ last.op = "makeSpend"
  /\ last.stage = "done"
  /\ last.error = "none"
  /\ \E hasJson \in BOOLEAN :
       last' = [op |-> "broadcastTx",
                stage |-> IF hasJson THEN "await" ELSE "done",
                quantity |-> last.quantity, fee |-> last.fee,
                publicAddress |-> last.publicAddress,
                hasJson |-> hasJson,
                params |-> IF hasJson THEN transferTokensParams(last.tx) ELSE NoParams,
                end |-> IF hasJson THEN "none" ELSE "notSent",
                error |-> IF hasJson THEN "none" ELSE "transactionJson not set",
                built |-> last.tx, tx |-> last.tx,
                transfer |-> [transaction_id |-> "", block_num |-> 0], now |-> 0,
                pre |-> <<ledgerVars, wallet>>]
  /\ emitted' = <<>>
  /\ UNCHANGED <<ledgerVars, wallet, schedVars, remote, cyc, mc>>

(* transferTokens returns or throws; broadcastTx lets the error through *)
BroadcastReturn ==
  /\ last.op = "broadcastTx"
  /\ last.stage = "await"
  /\ \E outs \in ApiOuts, transfer \in TransferResponses, now \in ClockMs :
       LET r == multicastServers("transferTokens", outs)
           b == broadcastTx(last.tx, r, transfer, now)
       IN last' = [last EXCEPT !.stage = "done", !.end = r.status,
                               !.error = b.error, !.tx = b.tx,
                               !.transfer = IF r.status = "thrown" THEN @ ELSE transfer,
                               !.now = IF r.status = "thrown" THEN @ ELSE now]
  /\ emitted' = <<>>
  /\ UNCHANGED <<ledgerVars, wallet, schedVars, remote, cyc, mc>>

NextSpend ==
  \/ UpdateBalanceCall
  \/ MakeSpendBegin
  \/ MakeSpendFeeReturn
  \/ BroadcastBegin
  \/ BroadcastReturn

(* A spend built and broadcast on one engine, between balance updates *)
SpecSpend == InitBalance /\ [][NextSpend]_vars

(* C22: broadcastTx writes txid and blockHeight of the answer, and the time
   of the clock, into the transaction only when the broadcast succeeded; when
   the payload is missing, every endpoint is unreachable or the service has
   rejected the request, the caller gets the error, the transaction is as
   makeSpend built it and no ledger field has changed. *)
C22_BroadcastWritesOnlyOnSuccess ==
  (last.op = "broadcastTx" /\ last.stage = "done") =>
     IF last.hasJson /\ last.end = "returned"
     THEN /\ last.error = "none"
          /\ last.tx.txid = last.transfer.transaction_id
          /\ last.tx.blockHeight = last.transfer.block_num
          /\ last.tx.date = last.now \div 1000
     ELSE /\ last.error # "none"
          /\ last.tx = last.built
          /\ last.tx.txid = "" /\ last.tx.date = 0 /\ last.tx.blockHeight = 0
          /\ <<ledgerVars, wallet>> = last.pre

(* A broadcast that the service rejected has ended, with a balance cached *)
C22_Witness ==
  /\ last.op = "broadcastTx"
  /\ last.stage = "done"
  /\ last.hasJson
  /\ last.error = "FioError"
  /\ totalBalances["FIO"] = Dec(100, 0)

(* C25: the transfer request broadcastTx sends for a transaction makeSpend
   built for amount A and fee F carries amount A, maxFee F and the payee of
   the spend request. *)
C25_BuildBroadcastRoundTrip ==
  (last.op = "broadcastTx" /\ last.hasJson) =>
     /\ last.params.amount = last.quantity
     /\ last.params.maxFee = NumStr(last.fee)
     /\ last.params.payeeFioPublicKey = last.publicAddress

(* A spend of 90 with fee 5 has been sent *)
C25_Witness ==
  /\ last.op = "broadcastTx"
  /\ last.hasJson
  /\ last.stage = "done"
  /\ last.end = "returned"
  /\ last.quantity = NumStr(90)
  /\ last.fee = 5
  /\ last.params.amount = NumStr(90)

(* A step taken by task t alone: its invocation begins on a timer, resumes
   from an await or ends, and no engine operation is part of the step *)
TaskStep(t) ==
  /\ eng' = eng
  /\ engineOn' = engineOn
  /\ pc'[t] # pc[t] \/ (t = TxTask /\ cyc' # cyc)
  /\ \A u \in TaskNames \ {t} : pc'[u] = pc[u]

(* C23: a step of the height task changes no ledger field but blockHeight, a
   step of the account task none but the balances and the two name lists, a
   step of the history task none but the transaction list and the watermark;
   whichever tasks are in flight at the same time. *)
C23_TasksWriteDisjointFields ==
  [][/\ TaskStep(BlockchainTask) =>
          /\ UNCHANGED <<totalBalances, fioAddresses, fioDomains, highestTxHeight>>
          /\ wallet'.txs = wallet.txs
     /\ TaskStep(AccountTask) =>
          /\ UNCHANGED <<blockHeight, highestTxHeight>>
          /\ wallet'.txs = wallet.txs
     /\ TaskStep(TxTask) =>
          UNCHANGED <<blockHeight, totalBalances, fioAddresses, fioDomains>>]_vars

(* Every task has written its part, and the account and history tasks are
   both waiting on a remote call *)
C23_Witness ==
  /\ blockHeight > 0
  /\ totalBalances["FIO"] = Dec(1, 0)
  /\ fioAddresses # <<>>
  /\ highestTxHeight > 0
  /\ wallet.txs # <<>>
  /\ pc[AccountTask] = "names"
  /\ pc[TxTask] = "pointer"

(* No two entries of list have the same name *)
UniqueNames(list) ==
  \A i, j \in 1..Len(list) : list[i].name = list[j].name => i = j

(* C24: no two entries of the address list share a name and no two entries
   of the domain list share a name, in whatever order the merges of the
   account poll and the register and renew actions reach the lists. *)
C24_NamesAreUniqueKeys ==
  /\ UniqueNames(fioAddresses)
  /\ UniqueNames(fioDomains)

(* A register for this wallet has found its name in the list, put there by
   a poll or an earlier register, next to another name, and added nothing *)
C24_Witness ==
  /\ last.op = "registerFioAddress"
  /\ last.result \in NamesOf(last.preAddresses)
  /\ fioAddresses = last.preAddresses
  /\ Len(fioAddresses) = 2
  /\ Len(fioDomains) = 1

(* Which transaction at which height each entry of a queue stands for *)
QueueKeys(q) ==
  [i \in 1..Len(q) |-> [txid |-> q[i].txid, blockHeight |-> q[i].blockHeight]]

(* The transactions a step hands to onTransactionsChanged *)
DeliveredBy(events) ==
  IF events = <<>> THEN <<>> ELSE events[1].arg

(* C26: every step of a history-sync invocation hands over or keeps exactly
   what was pending plus what the step queued, in a single call; an
   invocation whose checkTransactions did not throw ends with the pending
   queue empty, and one whose checkTransactions threw ends with the queue as
   it was and nothing delivered. *)
C26_QueuedDeliveredOnce ==
  [][LET queued == SubSeq(wallet'.calls, Len(wallet.calls) + 1, Len(wallet'.calls))
         ends == pc[TxTask] # "idle" /\ pc'[TxTask] = "idle"
     IN /\ Len(emitted') <= 1
        /\ \A i \in 1..Len(emitted') : emitted'[i].cb = "onTransactionsChanged"
        /\ QueueKeys(wallet.changed) \o queued =
             QueueKeys(DeliveredBy(emitted')) \o QueueKeys(wallet'.changed)
        /\ ~ends => emitted' = <<>>
        /\ (ends /\ cyc'.result # "failed") => wallet'.changed = <<>>
        /\ (ends /\ cyc'.result = "failed") =>
             (emitted' = <<>> /\ wallet'.changed = wallet.changed)]_vars

(* A cycle failed with a transaction pending, and the next one, which did
   not fail, has just delivered it together with what it queued itself *)
C26_Witness ==
  /\ cyc.n = 2
  /\ cyc.result = "completed"
  /\ cyc.interrupted > 0
  /\ wallet.changed = <<>>
  /\ Len(emitted) = 1
  /\ Len(emitted[1].arg) > Len(wallet.calls) - cyc.calls0
  /\ Len(wallet.calls) > cyc.calls0

====
